---- MODULE Spec2Model ----
(***************************************************************************)
(* State-machine model of the LiveInterface component                      *)
(* (src/components/LiveInterface.tsx): the session lifecycle, the playback *)
(* scheduler, and the instruction channel with its 8 second expiry.        *)
(*                                                                         *)
(* Two clocks are modelled.  currentTime is the output AudioContext clock  *)
(* in half seconds; wallClock is the timer clock in seconds.               *)
(***************************************************************************)
EXTENDS Integers, Sequences, FiniteSets, TLC

\* ------------------------------------------------------------- bounds
MaxConn == 2          \* connect attempts of one component (StrictMode runs the effect twice)
MaxPayloads == 2      \* audio payloads received over a run
MaxClock == 3         \* last value of the output clock (half seconds)
MaxWall == 12         \* last value of the timer clock (seconds)
MaxToolMsgs == 2      \* tool-call messages received over a run
MaxCalls == 2         \* function calls carried by one tool-call message
MaxTicks == 3         \* ticks of the frame interval over a run
MaxChunks == 2        \* input blocks handed to the encoder callback over a run

\* ---------------------------------------------------- program constants
EXPIRY == 8           \* setTimeout(..., 8000), in seconds

NULL == 0             \* a ref holding null; timer, stream and context ids are >= 1

\* Absent values of record type: a message without inline audio, a function
\* call without args, and currentInstruction = null.
NoAudio == [dur |-> 0, ok |-> FALSE]
NoArgs == [action |-> "absent", message |-> "absent"]
NoInstruction == [action |-> "null", message |-> "null"]

Conns == 1..MaxConn
Durations == {1, 2}   \* audioBuffer.duration of a payload, half seconds

VARIABLES
  mounted,               \* the component is mounted (React ignores setState afterwards)
  status,                \* useState<ConnectionStatus>
  errorMessage,          \* useState<string>
  isAiSpeaking,          \* useState(false)
  currentInstruction,    \* useState<InstructionState | null>
  instructionTimeoutRef, \* id of the last setTimeout, NULL before the first
  timers,                \* armed timeouts: records [id, due]
  timerSeq,              \* last timer id handed out by setTimeout
  wallClock,             \* timer clock, seconds
  conn,                  \* conn[c]: position of connect attempt c
  resolved,              \* conn ids whose sessionPromise has resolved
  streamRef,             \* conn id whose MediaStream the ref holds, or NULL
  track,                 \* track[c]: tracks of the stream captured by attempt c
  inputContextRef,       \* conn id whose input AudioContext the ref holds
  audioContextRef,       \* conn id whose output AudioContext the ref holds
  inCtx,                 \* inCtx[c]: state of the input context made by attempt c
  outCtx,                \* outCtx[c]: state of the output context made by attempt c
  sessionRef,            \* conn id of the session the ref holds, or NULL
  frameIntervalRef,      \* conn id whose setInterval id the ref holds, or NULL
  intervals,             \* conn ids whose frame interval is armed
  armed,                 \* conn ids whose processor.onaudioprocess is set
  currentTime,           \* audioContextRef.current.currentTime
  nextStartTime,         \* nextStartTimeRef.current
  sources,               \* sourcesRef.current: records [id, start, dur, at]
  decoding,              \* onmessage calls suspended at await decodeAudioData
  endedPending,          \* stopped sources whose 'ended' event is still to be delivered
  nPayloads,             \* audio payloads received so far
  nToolMsgs,             \* tool-call messages received so far
  thens,                 \* sessionPromise.then callbacks registered and not yet run
  sent,                  \* what has been handed to the session, in order
  blobs,                 \* canvas.toBlob calls whose callback has not run: [c, n]
  encoding,              \* toBlob callbacks suspended at await blobToBase64: [c, n]
  nTicks,                \* runs of the frame interval callback so far
  nChunks,               \* runs of processor.onaudioprocess so far
  releases,              \* history: how often each release call was made on each resource
  hist,                  \* history: what was scheduled and when (see NoHist)
  last                   \* history: the last handler that ran, with its input

vars == << mounted, status, errorMessage, isAiSpeaking, currentInstruction,
           instructionTimeoutRef, timers, timerSeq, wallClock, conn, resolved,
           streamRef, track, inputContextRef, audioContextRef, inCtx, outCtx,
           sessionRef, frameIntervalRef, intervals, armed, currentTime,
           nextStartTime, sources, decoding, endedPending, nPayloads, nToolMsgs,
           thens, sent, blobs, encoding, nTicks, nChunks, releases, hist, last >>

lifeVars == << conn, resolved, streamRef, track, inputContextRef, audioContextRef,
               inCtx, outCtx, sessionRef, frameIntervalRef, intervals, armed >>
instrVars == << currentInstruction, instructionTimeoutRef, timers, timerSeq, nToolMsgs >>
playVars == << nextStartTime, sources, decoding, endedPending, nPayloads >>
sendVars == << thens, sent >>
mediaVars == << blobs, encoding, nTicks, nChunks >>

Max(a, b) == IF a >= b THEN a ELSE b

\* React drops a state update made after the component has unmounted.
SetState(cur, new) == IF mounted THEN new ELSE cur

\* A message with nothing in it, and the record of the last handler run.
NoMsg == [calls |-> << >>, audio |-> NoAudio, interrupted |-> FALSE]
\* What a handler that started a segment records of it: its start and
\* duration, the output clock when its payload arrived (arr) and now (at), the
\* output clock at the latest payload arrival (seen), the end of the segment
\* started before it (prevEnd, 0 if none), and whether no interruption had
\* been handled until then (clean).
NoSeg == [start |-> 0, dur |-> 0, arr |-> 0, at |-> 0, seen |-> 0, prevEnd |-> 0,
          clean |-> TRUE]
Last(op, c) == [op |-> op, c |-> c, flush |-> FALSE, sched |-> 0, seg |-> NoSeg,
                m |-> NoMsg]

\* lastEnd: the end of the segment started last (0 if none); lastArr: the
\* output clock at the latest payload arrival; flushed: an interruption has
\* been handled; setAt: the timer clock at the latest handleInstruction;
\* stopped: stopSession has run; devFail: the connect attempts whose capture
\* request was rejected; chanErr: those whose channel reported an error.
NoHist == [lastEnd |-> 0, lastArr |-> 0, flushed |-> FALSE, setAt |-> 0,
           stopped |-> FALSE, devFail |-> {}, chanErr |-> {}]

NoReleases == [stop |-> [c \in Conns |-> 0], closeIn |-> [c \in Conns |-> 0],
               closeOut |-> [c \in Conns |-> 0], clearInterval |-> [c \in Conns |-> 0]]

Init ==
  /\ mounted = TRUE
  /\ status = "CONNECTING"
  /\ errorMessage = ""
  /\ isAiSpeaking = FALSE
  /\ currentInstruction = NoInstruction
  /\ instructionTimeoutRef = NULL
  /\ timers = {}
  /\ timerSeq = 0
  /\ wallClock = 0
  /\ conn = [c \in Conns |-> "idle"]
  /\ resolved = {}
  /\ streamRef = NULL
  /\ track = [c \in Conns |-> "none"]
  /\ inputContextRef = NULL
  /\ audioContextRef = NULL
  /\ inCtx = [c \in Conns |-> "none"]
  /\ outCtx = [c \in Conns |-> "none"]
  /\ sessionRef = NULL
  /\ frameIntervalRef = NULL
  /\ intervals = {}
  /\ armed = {}
  /\ currentTime = 0
  /\ nextStartTime = 0
  /\ sources = {}
  /\ decoding = {}
  /\ endedPending = 0
  /\ nPayloads = 0
  /\ nToolMsgs = 0
  /\ thens = << >>
  /\ sent = << >>
  /\ blobs = {}
  /\ encoding = {}
  /\ nTicks = 0
  /\ nChunks = 0
  /\ releases = NoReleases
  /\ hist = NoHist
  /\ last = Last("init", 0)

\* ------------------------------------------------------------ stopSession
\* The part of the state stopSession reads and writes, as a record.
Snapshot ==
  [mounted |-> mounted, status |-> status, streamRef |-> streamRef, track |-> track,
   frameIntervalRef |-> frameIntervalRef, intervals |-> intervals,
   instructionTimeoutRef |-> instructionTimeoutRef, timers |-> timers,
   audioContextRef |-> audioContextRef, inputContextRef |-> inputContextRef,
   outCtx |-> outCtx, inCtx |-> inCtx, sessionRef |-> sessionRef,
   sources |-> sources, endedPending |-> endedPending, releases |-> releases]

\* One more call of a release function on resource r.
Bump(cnt, r) == IF r = NULL THEN cnt ELSE [cnt EXCEPT ![r] = @ + 1]

\* AudioContext.close(): a running context becomes closed; closing a closed
\* context changes nothing (the returned promise is rejected).
CloseContext(ctx, r) == IF r = NULL THEN ctx ELSE [ctx EXCEPT ![r] = "closed"]

\* A stopSession that toggles the tracks instead of stopping them.
StopSessionToggle(s) ==
  [s EXCEPT
     !.track = IF s.streamRef = NULL THEN @
               ELSE [@ EXCEPT ![s.streamRef] = IF @ = "live" THEN "ended" ELSE "live"],
     !.intervals = @ \ {s.frameIntervalRef},
     !.timers = {t \in @ : t.id # s.instructionTimeoutRef},
     !.outCtx = CloseContext(@, s.audioContextRef),
     !.inCtx = CloseContext(@, s.inputContextRef),
     !.sessionRef = NULL,
     !.endedPending = @ + Cardinality(s.sources),
     !.sources = {},
     !.status = IF s.mounted THEN "DISCONNECTED" ELSE @]

\* stopSession(), lines 75-104, applied to a snapshot s.  No ref except
\* sessionRef is reset, so a later call repeats every release call.
StopSession(s) ==
  [s EXCEPT
     !.track = IF s.streamRef = NULL THEN @ ELSE [@ EXCEPT ![s.streamRef] = "ended"],
     !.intervals = @ \ {s.frameIntervalRef},
     !.timers = {t \in @ : t.id # s.instructionTimeoutRef},
     !.outCtx = CloseContext(@, s.audioContextRef),
     !.inCtx = CloseContext(@, s.inputContextRef),
     !.sessionRef = NULL,
     !.endedPending = @ + Cardinality(s.sources),
     !.sources = {},
     !.status = IF s.mounted THEN "DISCONNECTED" ELSE @,
     !.releases = [stop |-> Bump(@.stop, s.streamRef),
                   closeIn |-> Bump(@.closeIn, s.inputContextRef),
                   closeOut |-> Bump(@.closeOut, s.audioContextRef),
                   clearInterval |-> Bump(@.clearInterval, s.frameIntervalRef)]]

\* Write a snapshot back to the variables stopSession owns.
Install(t) ==
  /\ mounted' = t.mounted
  /\ status' = t.status
  /\ track' = t.track
  /\ intervals' = t.intervals
  /\ timers' = t.timers
  /\ outCtx' = t.outCtx
  /\ inCtx' = t.inCtx
  /\ sessionRef' = t.sessionRef
  /\ sources' = t.sources
  /\ endedPending' = t.endedPending
  /\ releases' = t.releases
  /\ hist' = [hist EXCEPT !.stopped = TRUE]
  /\ UNCHANGED << streamRef, frameIntervalRef, instructionTimeoutRef,
                  audioContextRef, inputContextRef >>

\* ------------------------------------------------------------- lifecycle
\* connectToGemini() up to its first await (lines 121-147).  The API key
\* lookup is an input: with no key the catch block runs at once.
ConnectStart(c, hasKey) ==
  /\ conn' = [conn EXCEPT ![c] = IF hasKey THEN "capturing" ELSE "failed"]
  /\ status' = SetState(status, IF hasKey THEN "CONNECTING" ELSE "ERROR")
  /\ errorMessage' = SetState(errorMessage, IF hasKey THEN "" ELSE "apikey")

\* useEffect on mount (lines 336-337): the first connect attempt.
Mount ==
  /\ mounted /\ conn[1] = "idle"
  /\ \E hasKey \in BOOLEAN :
       /\ ConnectStart(1, hasKey)
       /\ last' = Last("connect", 1)
  /\ UNCHANGED << mounted, isAiSpeaking, instrVars, wallClock, resolved, streamRef,
                  track, inputContextRef, audioContextRef, inCtx, outCtx, sessionRef,
                  frameIntervalRef, intervals, armed, currentTime, playVars,
                  sendVars, mediaVars, releases, hist >>

\* React.StrictMode (src/index.tsx 41-45) runs the effect's cleanup and the
\* effect again right after the first run, in the same synchronous pass:
\* stopSession() and then connectToGemini() for a second attempt.
StrictRemount ==
  /\ mounted /\ last = Last("connect", 1)
  /\ \E c \in Conns \ {1} :
       /\ conn[c] = "idle"
       /\ LET t == StopSession(Snapshot) IN
          /\ track' = t.track /\ intervals' = t.intervals /\ timers' = t.timers
          /\ outCtx' = t.outCtx /\ inCtx' = t.inCtx /\ sessionRef' = t.sessionRef
          /\ sources' = t.sources /\ endedPending' = t.endedPending
          /\ releases' = t.releases
       /\ hist' = [hist EXCEPT !.stopped = TRUE]
       /\ conn' = [conn EXCEPT ![c] = IF conn[1] = "capturing" THEN "capturing" ELSE "failed"]
       /\ status' = IF conn[1] = "capturing" THEN "CONNECTING" ELSE "ERROR"
       /\ errorMessage' = IF conn[1] = "capturing" THEN "" ELSE "apikey"
       /\ last' = Last("connect", c)
  /\ UNCHANGED << mounted, isAiSpeaking, currentInstruction, instructionTimeoutRef,
                  timerSeq, nToolMsgs, wallClock, resolved, streamRef,
                  inputContextRef, audioContextRef, frameIntervalRef, armed,
                  currentTime, nextStartTime, decoding, nPayloads, sendVars, mediaVars >>

\* getUserMedia resolved (lines 161-192): refs are overwritten, both audio
\* contexts are created and ai.live.connect is called.
CaptureOk(c) ==
  /\ conn[c] = "capturing"
  /\ conn' = [conn EXCEPT ![c] = "opening"]
  /\ streamRef' = c
  /\ track' = [track EXCEPT ![c] = "live"]
  /\ inputContextRef' = c
  /\ inCtx' = [inCtx EXCEPT ![c] = "running"]
  /\ audioContextRef' = c
  /\ outCtx' = [outCtx EXCEPT ![c] = "running"]
  /\ currentTime' = 0
  /\ last' = Last("captureOk", c)
  /\ UNCHANGED << mounted, status, errorMessage, isAiSpeaking, instrVars, wallClock,
                  resolved, sessionRef, frameIntervalRef, intervals, armed,
                  playVars, sendVars, mediaVars, releases, hist >>

\* A rejected capture request after which the attempt asks for the devices
\* again.
CaptureFailRetry(c) ==
  /\ conn[c] = "capturing"
  /\ conn' = conn
  /\ errorMessage' = SetState(errorMessage, "device")
  /\ status' = SetState(status, "ERROR")
  /\ hist' = [hist EXCEPT !.devFail = @ \cup {c}]
  /\ last' = Last("captureFail", c)
  /\ UNCHANGED << mounted, isAiSpeaking, instrVars, wallClock, resolved, streamRef,
                  track, inputContextRef, audioContextRef, inCtx, outCtx, sessionRef,
                  frameIntervalRef, intervals, armed, currentTime, playVars,
                  sendVars, mediaVars, releases >>

\* getUserMedia rejected: the catch block (lines 294-302).
CaptureFail(c) ==
  /\ conn[c] = "capturing"
  /\ conn' = [conn EXCEPT ![c] = "failed"]
  /\ errorMessage' = SetState(errorMessage, "device")
  /\ status' = SetState(status, "ERROR")
  /\ hist' = [hist EXCEPT !.devFail = @ \cup {c}]
  /\ last' = Last("captureFail", c)
  /\ UNCHANGED << mounted, isAiSpeaking, instrVars, wallClock, resolved, streamRef,
                  track, inputContextRef, audioContextRef, inCtx, outCtx, sessionRef,
                  frameIntervalRef, intervals, armed, currentTime, playVars,
                  sendVars, mediaVars, releases >>

\* onopen (lines 193-210): CONNECTED, the encoder callback is set and
\* startVideoStreaming arms the frame interval (lines 305-334).
OnOpen(c) ==
  /\ conn[c] = "opening"
  /\ conn' = [conn EXCEPT ![c] = "open"]
  /\ resolved' = resolved \cup {c}
  /\ status' = SetState(status, "CONNECTED")
  /\ armed' = armed \cup {c}
  /\ frameIntervalRef' = c
  /\ intervals' = intervals \cup {c}
  /\ last' = Last("open", c)
  /\ UNCHANGED << mounted, errorMessage, isAiSpeaking, instrVars, wallClock, streamRef,
                  track, inputContextRef, audioContextRef, inCtx, outCtx, sessionRef,
                  currentTime, playVars, sendVars, mediaVars, releases, hist >>

\* onclose (lines 282-285): stopSession().
OnClose(c) ==
  /\ conn[c] \in {"opening", "open", "errored"}
  /\ conn' = [conn EXCEPT ![c] = "closed"]
  /\ Install(StopSession(Snapshot))
  /\ last' = Last("close", c)
  /\ UNCHANGED << errorMessage, isAiSpeaking, currentInstruction, timerSeq, nToolMsgs,
                  wallClock, resolved, armed, currentTime, nextStartTime, decoding,
                  nPayloads, sendVars, mediaVars >>

\* An onerror that opens the channel again.
OnErrorReconnect(c) ==
  /\ conn[c] \in {"opening", "open"}
  /\ conn' = [conn EXCEPT ![c] = "opening"]
  /\ errorMessage' = SetState(errorMessage, "connection")
  /\ status' = SetState(status, "ERROR")
  /\ hist' = [hist EXCEPT !.chanErr = @ \cup {c}]
  /\ last' = Last("error", c)
  /\ UNCHANGED << mounted, isAiSpeaking, instrVars, wallClock, resolved, streamRef,
                  track, inputContextRef, audioContextRef, inCtx, outCtx, sessionRef,
                  frameIntervalRef, intervals, armed, currentTime, playVars,
                  sendVars, mediaVars, releases >>

\* onerror (lines 286-290): ERROR with the connection message, nothing released.
OnError(c) ==
  /\ conn[c] \in {"opening", "open"}
  /\ conn' = [conn EXCEPT ![c] = "errored"]
  /\ errorMessage' = SetState(errorMessage, "connection")
  /\ status' = SetState(status, "ERROR")
  /\ hist' = [hist EXCEPT !.chanErr = @ \cup {c}]
  /\ last' = Last("error", c)
  /\ UNCHANGED << mounted, isAiSpeaking, instrVars, wallClock, resolved, streamRef,
                  track, inputContextRef, audioContextRef, inCtx, outCtx, sessionRef,
                  frameIntervalRef, intervals, armed, currentTime, playVars,
                  sendVars, mediaVars, releases >>

\* The effect's cleanup on unmount (lines 338-340): stopSession().
Unmount ==
  /\ mounted /\ conn[1] # "idle"
  /\ Install(StopSession([Snapshot EXCEPT !.mounted = FALSE]))
  /\ last' = Last("unmount", 0)
  /\ UNCHANGED << errorMessage, isAiSpeaking, currentInstruction, timerSeq, nToolMsgs,
                  wallClock, conn, resolved, armed, currentTime, nextStartTime,
                  decoding, nPayloads, sendVars, mediaVars >>

\* --------------------------------------------------------- instruction channel
\* clearTimeout(id): a cleared or unknown id is ignored.
ClearTimeout(ts, id) == {t \in ts : t.id # id}

\* handleInstruction without its clearTimeout.
ArmExpiryKeep(ts, ref, id, now) == ts \cup {[id |-> id, due |-> now + EXPIRY]}

\* handleInstruction without its setTimeout.
ArmExpiryNone(ts, ref, id, now) == ClearTimeout(ts, ref)

\* handleInstruction's timer steps (lines 110-117): the previous timeout is
\* cleared and a new one is armed EXPIRY seconds from now.
ArmExpiry(ts, ref, id, now) == ClearTimeout(ts, ref) \cup {[id |-> id, due |-> now + EXPIRY]}

\* session.sendToolResponse / sendRealtimeInput inside sessionPromise.then
\* (lines 202-205, 227-235): on a resolved promise the callback runs before
\* any other event; on a pending one it waits for the resolution.
ThenSend(c, item) ==
  IF c \in resolved
    THEN sent' = Append(sent, item) /\ thens' = thens
    ELSE thens' = Append(thens, [c |-> c, item |-> item]) /\ sent' = sent

\* ------------------------------------------------------------ playback
\* line 245: the offset is raised to the output clock when the payload arrives.
ClampOffset(next, clock) == Max(next, clock)

\* line 265: source.start(nextStartTimeRef.current).
StartOffset(next, clock) == next

\* The offset left where it was after a segment is started.
AdvanceOffsetNone(next, dur) == next

\* The offset set to the duration ("=" for "+=").
AdvanceOffsetSet(next, dur) == dur

\* line 268: the offset advances by the buffer's duration.
AdvanceOffset(next, dur) == next + dur

\* An interruption that leaves the offset alone.
FlushOffsetKeep(next) == next

\* lines 272-277, the offset after an interruption.
FlushOffset(next) == 0

\* A handler that looks at the last function call of the message.
HonouredCallLast(m) == m.calls[Len(m.calls)]

\* line 218: const call = functionCalls[0].
HonouredCall(m) == m.calls[1]

\* The call the handler looks at names displayInstruction (lines 217-219).
IsInstruction(m) == Len(m.calls) > 0 /\ HonouredCall(m).name = "displayInstruction"

\* Reading args.action of a call without args throws a TypeError, which
\* ends the async handler there (lines 220-223).
ToolThrows(m) == IsInstruction(m) /\ HonouredCall(m).args = NoArgs

\* History kept with the suspended handlers: an interruption has been handled
\* (lines 272-277) since their payload arrived.
MarkStale(ds) == {[d EXCEPT !.stale = TRUE] : d \in ds}

\* onmessage (lines 211-281) up to its await, or to its end when it does not
\* reach the await.
OnMessage(c, m) ==
  LET honoured == IsInstruction(m) /\ ~ToolThrows(m)
      call == HonouredCall(m)
      audioPart == ~ToolThrows(m) /\ m.audio # NoAudio
      suspends == audioPart /\ audioContextRef # NULL
      flush == ~ToolThrows(m) /\ ~suspends /\ m.interrupted
  IN
  /\ conn[c] = "open"
  /\ IF honoured
       THEN /\ currentInstruction' =
                 SetState(currentInstruction,
                          [action |-> call.args.action, message |-> call.args.message])
            /\ timers' = ArmExpiry(timers, instructionTimeoutRef, timerSeq + 1, wallClock)
            /\ instructionTimeoutRef' = timerSeq + 1
            /\ timerSeq' = timerSeq + 1
            /\ ThenSend(c, [kind |-> "toolResponse", id |-> call.id, name |-> call.name])
       ELSE UNCHANGED << currentInstruction, timers, instructionTimeoutRef, timerSeq,
                         sendVars >>
  /\ nToolMsgs' = IF Len(m.calls) > 0 THEN nToolMsgs + 1 ELSE nToolMsgs
  /\ nPayloads' = IF m.audio # NoAudio THEN nPayloads + 1 ELSE nPayloads
  /\ isAiSpeaking' = IF flush THEN SetState(isAiSpeaking, FALSE)
                     ELSE IF audioPart THEN SetState(isAiSpeaking, TRUE)
                     ELSE isAiSpeaking
  /\ nextStartTime' = IF flush THEN FlushOffset(nextStartTime)
                      ELSE IF suspends THEN ClampOffset(nextStartTime, currentTime)
                      ELSE nextStartTime
  /\ decoding' = IF suspends
                   THEN decoding \cup {[id |-> nPayloads + 1, dur |-> m.audio.dur,
                                        ok |-> m.audio.ok, intr |-> m.interrupted,
                                        arr |-> currentTime, stale |-> FALSE]}
                   ELSE IF flush THEN MarkStale(decoding)
                   ELSE decoding
  /\ sources' = IF flush THEN {} ELSE sources
  /\ endedPending' = IF flush THEN endedPending + Cardinality(sources)
                     ELSE endedPending
  /\ hist' = [hist EXCEPT !.lastArr = IF suspends THEN currentTime ELSE @,
                          !.flushed = @ \/ flush,
                          !.setAt = IF honoured THEN wallClock ELSE @]
  /\ last' = [op |-> "message", c |-> c, flush |-> flush, sched |-> 0, seg |-> NoSeg,
              m |-> m]
  /\ UNCHANGED << mounted, status, errorMessage, wallClock, lifeVars, currentTime,
                  mediaVars, releases >>

\* decodeAudioData: the buffer of a well-formed payload, with its duration;
\* a malformed payload makes the awaited promise reject.
DecodeResult(d) == IF d.ok THEN [ok |-> TRUE, duration |-> d.dur] ELSE [ok |-> FALSE]

\* onmessage after the await (lines 252-280): the segment is started at the
\* offset as it is now, then the interrupted branch runs.  A rejected decode
\* ends the handler.
DecodeDone(d) ==
  LET buf == DecodeResult(d)
      seg == [id |-> d.id, start |-> StartOffset(nextStartTime, currentTime),
              dur |-> buf.duration, at |-> currentTime]
      flush == buf.ok /\ d.intr
  IN
  /\ d \in decoding
  /\ decoding' = IF flush THEN MarkStale(decoding \ {d}) ELSE decoding \ {d}
  /\ IF buf.ok
       THEN /\ sources' = IF flush THEN {} ELSE sources \cup {seg}
            /\ endedPending' = IF flush THEN endedPending + Cardinality(sources) + 1
                                ELSE endedPending
            /\ nextStartTime' = IF flush THEN FlushOffset(nextStartTime)
                                ELSE AdvanceOffset(nextStartTime, buf.duration)
            /\ isAiSpeaking' = IF flush THEN SetState(isAiSpeaking, FALSE) ELSE isAiSpeaking
            /\ hist' = [hist EXCEPT !.lastEnd = seg.start + seg.dur,
                                    !.flushed = @ \/ flush]
       ELSE UNCHANGED << sources, endedPending, nextStartTime, isAiSpeaking, hist >>
  /\ last' = [op |-> "decoded", c |-> 0, flush |-> flush,
              sched |-> IF buf.ok THEN d.id ELSE 0,
              seg |-> IF buf.ok
                        THEN [start |-> seg.start, dur |-> seg.dur, arr |-> d.arr,
                              at |-> currentTime, seen |-> hist.lastArr,
                              prevEnd |-> hist.lastEnd, clean |-> ~hist.flushed]
                        ELSE NoSeg,
              m |-> NoMsg]
  /\ UNCHANGED << mounted, status, errorMessage, instrVars, wallClock, lifeVars,
                  currentTime, nPayloads, sendVars, mediaVars, releases >>

\* The moment a started source stops sounding: source.start(when) with when
\* in the past starts at once.
EndOf(x) == Max(x.start, x.at) + x.dur

\* An 'ended' listener that clears the indicator without the size test.
SourceEndedAlways(x) ==
  /\ x \in sources
  /\ currentTime >= EndOf(x)
  /\ sources' = sources \ {x}
  /\ isAiSpeaking' = SetState(isAiSpeaking, FALSE)
  /\ last' = Last("ended", 0)
  /\ UNCHANGED << mounted, status, errorMessage, instrVars, wallClock, lifeVars,
                  currentTime, nextStartTime, decoding, endedPending, nPayloads,
                  sendVars, mediaVars, releases, hist >>

\* The 'ended' listener (lines 260-263) of a source that played to its end.
SourceEnded(x) ==
  /\ x \in sources
  /\ currentTime >= EndOf(x)
  /\ sources' = sources \ {x}
  /\ isAiSpeaking' = IF sources \ {x} = {} THEN SetState(isAiSpeaking, FALSE)
                     ELSE isAiSpeaking
  /\ last' = Last("ended", 0)
  /\ UNCHANGED << mounted, status, errorMessage, instrVars, wallClock, lifeVars,
                  currentTime, nextStartTime, decoding, endedPending, nPayloads,
                  sendVars, mediaVars, releases, hist >>

\* The same listener for a source that was stopped by stop(): it is no longer
\* in the set, so only the size test acts.
StoppedEnded ==
  /\ endedPending > 0
  /\ endedPending' = endedPending - 1
  /\ isAiSpeaking' = IF sources = {} THEN SetState(isAiSpeaking, FALSE) ELSE isAiSpeaking
  /\ last' = Last("ended", 0)
  /\ UNCHANGED << mounted, status, errorMessage, instrVars, wallClock, lifeVars,
                  currentTime, nextStartTime, sources, decoding, nPayloads,
                  sendVars, mediaVars, releases, hist >>

\* The output clock runs while the context the ref holds is running.
TickAudio ==
  /\ audioContextRef # NULL /\ outCtx[audioContextRef] = "running"
  /\ currentTime < MaxClock
  /\ currentTime' = currentTime + 1
  /\ last' = Last("tick", 0)
  /\ UNCHANGED << mounted, status, errorMessage, isAiSpeaking, instrVars, wallClock,
                  lifeVars, playVars, sendVars, mediaVars, releases, hist >>

\* The expiry callback (lines 115-117).
TimerFire(t) ==
  /\ t \in timers
  /\ wallClock >= t.due
  /\ timers' = timers \ {t}
  /\ currentInstruction' = SetState(currentInstruction, NoInstruction)
  /\ last' = Last("expiry", 0)
  /\ UNCHANGED << mounted, status, errorMessage, isAiSpeaking, instructionTimeoutRef,
                  timerSeq, nToolMsgs, wallClock, lifeVars, currentTime, playVars,
                  sendVars, mediaVars, releases, hist >>

\* A second passes; a timeout that is due runs before the clock moves on.
TickWall ==
  /\ wallClock < MaxWall
  /\ \A t \in timers : t.due > wallClock
  /\ wallClock' = wallClock + 1
  /\ last' = Last("second", 0)
  /\ UNCHANGED << mounted, status, errorMessage, isAiSpeaking, instrVars, lifeVars,
                  currentTime, playVars, sendVars, mediaVars, releases, hist >>

\* ------------------------------------------------------- outbound media
\* processor.onaudioprocess (lines 198-206): one chunk per input block, sent
\* inside sessionPromise.then, which also stores the session in sessionRef.
\* The processor runs while the input context it was created on is running.
AudioProcess(c) ==
  /\ c \in armed /\ inCtx[c] = "running"
  /\ nChunks < MaxChunks
  /\ nChunks' = nChunks + 1
  /\ ThenSend(c, [kind |-> "audio", id |-> << c, nChunks + 1 >>, name |-> "pcm"])
  /\ sessionRef' = IF c \in resolved THEN c ELSE sessionRef
  /\ last' = Last("chunk", c)
  /\ UNCHANGED << mounted, status, errorMessage, isAiSpeaking, instrVars, wallClock,
                  conn, resolved, streamRef, track, inputContextRef, audioContextRef,
                  inCtx, outCtx, frameIntervalRef, intervals, armed, currentTime,
                  playVars, blobs, encoding, nTicks, releases, hist >>

\* The video and canvas elements exist while the component renders its main
\* view (lines 361-371); the ERROR view (lines 344-359) has neither.
ElementsPresent == mounted /\ status # "ERROR"

\* A tick that starts a compression only when none is pending.
StartCompressionGated(bs, c, n) == IF bs = {} THEN {[c |-> c, n |-> n]} ELSE bs

\* canvas.toBlob(...) (line 319): one more pending compression, whatever is
\* pending already.
StartCompression(bs, c, n) == bs \cup {[c |-> c, n |-> n]}

\* The frame interval callback (lines 309-333).  It returns at once when the
\* canvas, the video element or the 2d context is missing (lines 310-313);
\* otherwise it draws the frame and calls canvas.toBlob.
FrameTick(c) ==
  /\ c \in intervals
  /\ nTicks < MaxTicks
  /\ nTicks' = nTicks + 1
  /\ \E ready \in BOOLEAN :
       LET draws == ready /\ ElementsPresent IN
       /\ blobs' = IF draws THEN StartCompression(blobs, c, nTicks + 1) ELSE blobs
       /\ last' = Last(IF draws THEN "frameTick" ELSE "frameSkip", c)
  /\ UNCHANGED << mounted, status, errorMessage, isAiSpeaking, instrVars, wallClock,
                  lifeVars, currentTime, playVars, sendVars, encoding, nChunks,
                  releases, hist >>

\* The toBlob callback (lines 319-320): with a null blob it does nothing,
\* otherwise it suspends at await blobToBase64.
BlobDone(b) ==
  /\ b \in blobs
  /\ blobs' = blobs \ {b}
  /\ \E ok \in BOOLEAN : encoding' = IF ok THEN encoding \cup {b} ELSE encoding
  /\ last' = Last("blob", b.c)
  /\ UNCHANGED << mounted, status, errorMessage, isAiSpeaking, instrVars, wallClock,
                  lifeVars, currentTime, playVars, sendVars, nTicks, nChunks,
                  releases, hist >>

\* blobToBase64: the base64 data of the frame drawn at tick n for attempt c,
\* named by that pair.
BlobToBase64(e) == << e.c, e.n >>

\* The toBlob callback after its await (lines 321-329): the frame is sent
\* inside sessionPromise.then.
EncodeDone(e) ==
  /\ e \in encoding
  /\ encoding' = encoding \ {e}
  /\ ThenSend(e.c, [kind |-> "frame", id |-> BlobToBase64(e), name |-> "jpeg"])
  /\ last' = Last("frame", e.c)
  /\ UNCHANGED << mounted, status, errorMessage, isAiSpeaking, instrVars, wallClock,
                  lifeVars, currentTime, playVars, blobs, nTicks, nChunks,
                  releases, hist >>

\* ------------------------------------------------------------- inputs
Payloads == [dur : Durations, ok : BOOLEAN]

\* Messages carrying an audio payload, with or without the interrupted flag.
\* A malformed payload and a payload that comes with the flag are short ones.
AudioMessages ==
  {m \in [calls : {<< >>}, audio : Payloads, interrupted : BOOLEAN] :
     (~m.audio.ok \/ m.interrupted) => m.audio.dur = 1}

Instructions == {[action |-> "fix_buzz", message |-> "t1"],
                 [action |-> "success", message |-> "t2"]}
\* args of a function call: absent, complete, or lacking its action.
ArgsValues == {NoArgs} \cup Instructions \cup {[action |-> "undefined", message |-> "t1"]}

\* The first call of a message: displayInstruction with any args, or a call
\* of another tool.  The calls after it: one of either kind.
FirstCalls == [name : {"displayInstruction"}, args : ArgsValues]
                \cup {[name |-> "other", args |-> NoArgs]}
LaterCalls == {[name |-> "displayInstruction", args |-> [action |-> "success", message |-> "t2"]],
               [name |-> "other", args |-> NoArgs]}

\* The function calls of tool-call message number n: 1..MaxCalls calls, the
\* call at position i carrying the id <<n, i>>.
ToolCalls(n) ==
  UNION {{[i \in 1..k |-> LET call == IF i = 1 THEN first ELSE later[i]
                          IN [id |-> << n, i >>, name |-> call.name, args |-> call.args]] :
            first \in FirstCalls, later \in [2..k -> LaterCalls]} :
         k \in 1..MaxCalls}

AudioMessage(c) ==
  /\ nPayloads < MaxPayloads
  /\ \E m \in AudioMessages : OnMessage(c, m)

\* A message carrying the interrupted flag alone.
InterruptMessage(c) ==
  OnMessage(c, [calls |-> << >>, audio |-> NoAudio, interrupted |-> TRUE])

ToolMessage(c) ==
  /\ nToolMsgs < MaxToolMsgs
  /\ \E calls \in ToolCalls(nToolMsgs + 1) :
       OnMessage(c, [calls |-> calls, audio |-> NoAudio, interrupted |-> FALSE])

\* ------------------------------------------------------- specifications
\* One connect attempt (a build without the StrictMode double run).
LifeSingle ==
  \/ Mount
  \/ CaptureOk(1)
  \/ CaptureFail(1)
  \/ OnOpen(1)
  \/ OnClose(1)
  \/ OnError(1)
  \/ Unmount

\* The lifecycle as the playback path meets it: the channel opens, and
\* closes with stopSession().
LifePlay ==
  \/ Mount
  \/ CaptureOk(1)
  \/ OnOpen(1)
  \/ OnClose(1)

PlayNext ==
  \/ LifePlay
  \/ AudioMessage(1)
  \/ InterruptMessage(1)
  \/ \E d \in decoding : DecodeDone(d)
  \/ \E x \in sources : SourceEnded(x)
  \/ StoppedEnded
  \/ TickAudio

SpecPlay == Init /\ [][PlayNext]_vars

InstrNext ==
  \/ LifeSingle
  \/ ToolMessage(1)
  \/ \E t \in timers : TimerFire(t)
  \/ TickWall

SpecInstr == Init /\ [][InstrNext]_vars

Lifecycle ==
  \/ Mount
  \/ StrictRemount
  \/ \E c \in Conns : CaptureOk(c)
  \/ \E c \in Conns : CaptureFail(c)
  \/ \E c \in Conns : OnOpen(c)
  \/ \E c \in Conns : OnClose(c)
  \/ \E c \in Conns : OnError(c)
  \/ Unmount

SpecLife == Init /\ [][Lifecycle]_vars

SendNext ==
  \/ LifeSingle
  \/ AudioProcess(1)
  \/ FrameTick(1)
  \/ \E b \in blobs : BlobDone(b)
  \/ \E e \in encoding : EncodeDone(e)

SpecSend == Init /\ [][SendNext]_vars

\* =============================================================== claims

\* --- C1 -----------------------------------------------------------------
\* C1 as stated, for runs in which no interruption has been handled: a segment
\* whose payload arrived before the end of the segment started before it
\* starts at that end; one whose payload arrived after a silence starts at
\* the output clock (as read when the payload arrived or when it is started).
C1_Original ==
  (last.sched # 0 /\ last.seg.clean) =>
     LET g == last.seg IN
       /\ g.arr < g.prevEnd => g.start = g.prevEnd
       /\ g.arr >= g.prevEnd => g.start \in {g.arr, g.at}

\* --- C2 -----------------------------------------------------------------
\* C2: the scheduled ranges [start, start + dur) of the sources in the active
\* set are pairwise disjoint in every reachable state.
C2_NoOverlap ==
  \A x \in sources : \A y \in sources :
     x # y => (x.start + x.dur <= y.start \/ y.start + y.dur <= x.start)

\* Two segments active together after an interruption has been handled.
C2_Witness == Cardinality(sources) = 2 /\ hist.flushed

\* --- C3 -----------------------------------------------------------------
\* C3: when a handler has run its interrupted branch, the active set is empty
\* and the next playback offset is 0.
C3_FlushEmptiesAndResets == last.flush => (sources = {} /\ nextStartTime = 0)

\* An interruption handled after segments were started, two of them stopped.
C3_Witness == last.flush /\ endedPending >= 2 /\ hist.lastEnd >= 2

\* --- C4 -----------------------------------------------------------------
\* C4: the next playback offset decreases only in a step that runs the
\* interrupted branch; arrival, scheduling, ended events and stopSession
\* never lower it.
C4_OffsetMonotone == [][(nextStartTime' < nextStartTime) => last'.flush]_vars

\* stopSession has just run with a positive offset, which it left alone.
C4_Witness == last.op = "close" /\ nextStartTime > 0 /\ hist.stopped

\* --- C5 -----------------------------------------------------------------
\* C5 as stated: once the status is DISCONNECTED or ERROR no step changes it.
C5_TerminalStatus ==
  [][(status \in {"DISCONNECTED", "ERROR"}) => (status' = status)]_vars

\* --- C6 -----------------------------------------------------------------
\* C6: in every reachable state, stopSession run twice leaves what it owns
\* (status, tracks, timers, intervals, contexts, session handle, active set)
\* exactly as stopSession run once does; and right after it has run, another
\* run changes nothing, the active set is empty and a mounted component shows
\* DISCONNECTED.  The count of release calls made is history, not state.
C6_StopIdempotent ==
  /\ [StopSession(StopSession(Snapshot)) EXCEPT !.releases = releases]
        = [StopSession(Snapshot) EXCEPT !.releases = releases]
  /\ last.op \in {"close", "unmount"} =>
        /\ [StopSession(Snapshot) EXCEPT !.releases = releases] = Snapshot
        /\ sources = {}
        /\ timers = {}
        /\ mounted => status = "DISCONNECTED"

\* stopSession has run a second time, an unmount after a remote close, and
\* the first run cleared a pending expiry timeout.
C6_Witness ==
  /\ last.op = "unmount" /\ timerSeq >= 1 /\ wallClock < EXPIRY
  /\ conn[1] = "closed" /\ releases.closeOut[1] = 2

\* --- C7 -----------------------------------------------------------------
\* C7 as stated: no release call is made twice on a resource, and once the
\* component is unmounted and every connect attempt is over, nothing is live.
C7_ReleasedExactlyOnce ==
  /\ \A c \in Conns :
       /\ releases.stop[c] <= 1
       /\ releases.closeIn[c] <= 1
       /\ releases.closeOut[c] <= 1
       /\ releases.clearInterval[c] <= 1
  /\ (~mounted /\ \A c \in Conns : conn[c] \in {"idle", "failed", "closed"}) =>
       /\ \A c \in Conns : track[c] # "live" /\ inCtx[c] # "running" /\ outCtx[c] # "running"
       /\ intervals = {}
       /\ timers = {}

\* --- C8 -----------------------------------------------------------------
\* C8: at most one expiry timeout is armed, it is due EXPIRY seconds after the
\* latest handleInstruction, and the current instruction is never cleared
\* earlier than that.
C8_ExpiryFollowsLatest ==
  [][/\ Cardinality(timers') <= 1
     /\ \A t \in timers' : t.due = hist'.setAt + EXPIRY
     /\ (currentInstruction # NoInstruction /\ currentInstruction' = NoInstruction)
           => wallClock' >= hist'.setAt + EXPIRY]_vars

\* An instruction replaced by "success" at 3 s is still shown at 11 s, when
\* its own timeout falls due.
C8_Witness ==
  /\ timerSeq = 2 /\ hist.setAt = 3 /\ wallClock = 3 + EXPIRY
  /\ currentInstruction = [action |-> "success", message |-> "t2"]
  /\ timers = {[id |-> 2, due |-> 3 + EXPIRY]}

\* --- C9 -----------------------------------------------------------------
\* C9: while the session is not stopped, a current instruction is never older
\* than EXPIRY seconds and its timeout is armed for that moment (the clock
\* does not pass a due timeout); the expiry callback empties it.
C9_ExpiresAfterEight ==
  /\ (mounted /\ ~hist.stopped /\ currentInstruction # NoInstruction) =>
        /\ wallClock <= hist.setAt + EXPIRY
        /\ \E t \in timers : t.due = hist.setAt + EXPIRY
  /\ (mounted /\ last.op = "expiry") => currentInstruction = NoInstruction

\* The instruction has just expired, EXPIRY seconds after it was set.
C9_Witness ==
  /\ last.op = "expiry" /\ mounted /\ ~hist.stopped
  /\ currentInstruction = NoInstruction
  /\ wallClock = hist.setAt + EXPIRY /\ timerSeq = 1

\* --- C10 ----------------------------------------------------------------
\* C10: a tool-call message whose first call is a displayInstruction with
\* both arguments makes them the current instruction and sends exactly one
\* tool response, with that call's id; a message whose first call names
\* another tool changes nothing and sends nothing, whatever follows the first
\* call; no response ever carries the id of a later call.
C10_OnlyFirstCallHonoured ==
  [][(last'.op = "message" /\ Len(last'.m.calls) > 0) =>
       LET f == last'.m.calls[1] IN
         /\ (f.name = "displayInstruction" /\ f.args \in Instructions) =>
               /\ mounted => currentInstruction' = f.args
               /\ sent' = Append(sent, [kind |-> "toolResponse", id |-> f.id,
                                        name |-> f.name])
               /\ \A i \in 1..Len(sent) : sent[i].id # f.id
         /\ f.name # "displayInstruction" =>
               /\ currentInstruction' = currentInstruction
               /\ timers' = timers
               /\ sent' = sent
         /\ \A i \in 1..Len(sent') : sent'[i].id[2] = 1]_vars

\* A message with two displayInstruction calls: the first is shown and
\* acknowledged, the second is not.
C10_Witness ==
  /\ last.op = "message" /\ Len(last.m.calls) = 2
  /\ last.m.calls[1].name = "displayInstruction"
  /\ last.m.calls[1].args = [action |-> "fix_buzz", message |-> "t1"]
  /\ last.m.calls[2].name = "displayInstruction"
  /\ currentInstruction = [action |-> "fix_buzz", message |-> "t1"]
  /\ sent = << [kind |-> "toolResponse", id |-> last.m.calls[1].id,
                name |-> "displayInstruction"] >>

\* --- C11 ----------------------------------------------------------------
\* C11: a rejected capture request sets ERROR with the device-access message
\* (on a mounted component); from then on that attempt stays failed, it never
\* holds a stream, a context or a channel, and no step starts a connect
\* attempt.
C11_CaptureFailureIsFinal ==
  [][/\ \A c \in Conns :
          (conn[c] = "capturing" /\ conn'[c] = "failed") =>
             /\ mounted => (status' = "ERROR" /\ errorMessage' = "device")
             /\ c \in hist'.devFail
     /\ \A c \in hist.devFail :
          /\ conn'[c] = "failed" /\ c \notin resolved'
          /\ track'[c] = "none" /\ inCtx'[c] = "none" /\ outCtx'[c] = "none"
     /\ hist.devFail # {} =>
          \A c \in Conns : conn[c] = "idle" => conn'[c] = "idle"]_vars

\* The capture of the only attempt was rejected, and the component was
\* unmounted afterwards: the attempt is still failed and nothing was started.
C11_Witness ==
  /\ hist.devFail = {1} /\ last.op = "unmount"
  /\ status = "ERROR" /\ errorMessage = "device"
  /\ conn = [c \in Conns |-> IF c = 1 THEN "failed" ELSE "idle"]

\* --- C12 ----------------------------------------------------------------
\* C12: the step in which a channel reports an error sets ERROR with the
\* connection message (on a mounted component) and starts nothing; from then
\* on that channel is errored or closed, never opening or open again, and no
\* step starts a connect attempt.
C12_ErrorNeverReconnects ==
  [][/\ last'.op = "error" =>
          /\ mounted => (status' = "ERROR" /\ errorMessage' = "connection")
          /\ last'.c \in hist'.chanErr
          /\ \A c \in Conns \ {last'.c} : conn'[c] = conn[c]
     /\ \A c \in hist.chanErr : conn'[c] \in {"errored", "closed"}
     /\ hist.chanErr # {} =>
          \A c \in Conns : conn[c] = "idle" => conn'[c] = "idle"]_vars

\* An open channel reported an error and was closed afterwards; no attempt
\* was started after the first.
C12_Witness ==
  /\ hist.chanErr = {1} /\ 1 \in resolved /\ last.op = "close"
  /\ conn = [c \in Conns |-> IF c = 1 THEN "closed" ELSE "idle"]
  /\ errorMessage = "connection"

\* --- C13 ----------------------------------------------------------------
\* C13 as stated: right after the close callback of a channel has run, the
\* tracks captured for it are stopped, its frame interval and the expiry
\* timeout are cleared, its two audio contexts are closed, the session handle
\* is discarded, the active set is empty and a mounted component shows
\* DISCONNECTED.
C13_CloseTearsDown ==
  last.op = "close" =>
     /\ track[last.c] # "live"
     /\ last.c \notin intervals
     /\ timers = {}
     /\ inCtx[last.c] # "running" /\ outCtx[last.c] # "running"
     /\ sessionRef = NULL
     /\ sources = {}
     /\ mounted => status = "DISCONNECTED"

\* --- C14 ----------------------------------------------------------------
\* C14 as stated: a message whose honoured call is a displayInstruction with
\* an argument missing (no args, or args without action) leaves the current
\* instruction and the expiry timeouts as they were, acknowledges nothing,
\* and its handler does not throw.
C14_MissingArgumentDropped ==
  [][(/\ last'.op = "message"
      /\ IsInstruction(last'.m)
      /\ HonouredCall(last'.m).args \notin Instructions) =>
        /\ currentInstruction' = currentInstruction
        /\ timers' = timers
        /\ sent' = sent
        /\ ~ToolThrows(last'.m)]_vars

\* --- C15 ----------------------------------------------------------------
\* C15 as stated: neither the arrival of a malformed audio payload nor the
\* failure of its decode changes the status, the active set or the next
\* playback offset.
C15_MalformedPayloadDropped ==
  [][(\/ /\ last'.op = "message"
         /\ last'.m.audio # NoAudio /\ ~last'.m.audio.ok /\ ~last'.m.interrupted
      \/ /\ last'.op = "decoded" /\ last'.sched = 0) =>
        /\ status' = status
        /\ sources' = sources
        /\ nextStartTime' = nextStartTime]_vars

\* --- C16 ----------------------------------------------------------------
\* C16 as stated: at no point do two connect attempts have a channel opening
\* or open, or live tracks, at the same time.
C16_OneActiveSession ==
  /\ Cardinality({c \in Conns : conn[c] \in {"opening", "open"}}) <= 1
  /\ Cardinality({c \in Conns : track[c] = "live"}) <= 1

\* --- C17 ----------------------------------------------------------------
\* C17: a run of the frame interval callback starts exactly one compression
\* when the elements and the 2d context are there, however many compressions
\* are still pending, and none when they are missing; it completes and sends
\* nothing itself, and no other step starts a compression.
C17_OneCompressionPerTick ==
  [][/\ last'.op = "frameTick" =>
          /\ [c |-> last'.c, n |-> nTicks'] \notin blobs
          /\ blobs' = blobs \cup {[c |-> last'.c, n |-> nTicks']}
     /\ last'.op = "frameSkip" => blobs' = blobs
     /\ last'.op \in {"frameTick", "frameSkip"} =>
          /\ nTicks' = nTicks + 1
          /\ encoding' = encoding /\ sent' = sent
     /\ ~(blobs' \subseteq blobs) => last'.op = "frameTick"]_vars

\* The first tick started a compression that is still pending, the second
\* tick was skipped, the third started another one.
C17_Witness ==
  /\ last.op = "frameTick" /\ nTicks = 3
  /\ blobs = {[c |-> 1, n |-> 1], [c |-> 1, n |-> 3]}
  /\ encoding = {} /\ sent = << >>

\* --- C18 ----------------------------------------------------------------
\* C18 as stated: a segment that has just been started has a start that is
\* not earlier than the output clock at that moment.
C18_StartNotBeforeClock ==
  last.sched # 0 => last.seg.start >= last.seg.at

\* --- C19 ----------------------------------------------------------------
\* C19 as stated: a step that hands an audio chunk or an image frame to the
\* session is taken on a channel whose open callback has run, with the status
\* CONNECTED.
C19_SendsOnlyWhileConnected ==
  [][(/\ Len(sent') > Len(sent)
      /\ sent'[Len(sent')].kind \in {"audio", "frame"}) =>
        /\ sent'[Len(sent')].id[1] \in resolved
        /\ status = "CONNECTED"]_vars

\* --- C20 ----------------------------------------------------------------
\* C20 as stated: among what has been handed to the session, the audio chunks
\* are the chunks produced so far, each once and in callback order, and the
\* image frames appear in the order of the ticks that drew them.
C20_SendsInProductionOrder ==
  /\ \A i \in 1..Len(sent) : \A j \in 1..Len(sent) :
        (i < j /\ sent[i].kind = sent[j].kind /\ sent[i].kind \in {"audio", "frame"}) =>
           sent[i].id[2] < sent[j].id[2]
  /\ \A n \in 1..nChunks :
        \E i \in 1..Len(sent) : sent[i].kind = "audio" /\ sent[i].id[2] = n

\* --- C21 ----------------------------------------------------------------
\* C21: a step in which a source that has played to its end runs its 'ended'
\* listener removes that source and no other from the active set; if the set
\* is empty afterwards the indicator is false (on a mounted component), and
\* if other sources remain the indicator is as it was.
C21_EndedUpdatesIndicator ==
  [][(last'.op = "ended" /\ sources' # sources) =>
       /\ \E x \in sources : sources' = sources \ {x} /\ currentTime >= EndOf(x)
       /\ sources' = {} => (mounted => ~isAiSpeaking')
       /\ sources' # {} => isAiSpeaking' = isAiSpeaking]_vars

\* Of two active sources one has played to its end; the other is still
\* active and the indicator is still true.
C21_Witness ==
  /\ last.op = "ended" /\ Cardinality(sources) = 1 /\ isAiSpeaking
  /\ endedPending = 0 /\ ~hist.flushed /\ ~hist.stopped
  /\ decoding = {} /\ nPayloads = 2

\* --- C22 ----------------------------------------------------------------
\* C22 as stated: once stopSession has run, no captured track is live, no
\* frame interval is armed and no encoder callback is set on a running input
\* context.
C22_NothingLiveAfterStop ==
  hist.stopped =>
     /\ \A c \in Conns : track[c] # "live"
     /\ intervals = {}
     /\ \A c \in armed : inCtx[c] # "running"

\* --- C23 ----------------------------------------------------------------
\* C23 as stated, for runs in which stopSession left no track live: once
\* stopSession has run, no step hands anything more to the session.
C23_NothingSentAfterStop ==
  [][(hist.stopped /\ \A c \in Conns : track[c] # "live") => (sent' = sent)]_vars

\* --- C24 ----------------------------------------------------------------
\* C24 as stated: no segment is started for a payload that arrived before an
\* interruption that has been handled since.
C24_NoStaleSegmentStarted ==
  [][last'.sched # 0 =>
       \A d \in decoding : d.id = last'.sched => ~d.stale]_vars

\* --- C25 ----------------------------------------------------------------
\* C25 as stated: whenever the indicator is true, the active set is not empty
\* or a decode is in flight.
C25_IndicatorHasCause ==
  isAiSpeaking => (sources # {} \/ decoding # {})

====
